---- MODULE Spec2Model ----
(***************************************************************************)
(* State-machine model of the oogl lifecycle layer:                        *)
(*   oogl::OOGLHandler         (src/src/oogl/OOGLHandler.cpp)             *)
(*   oogl::OOGLHandlerFactory  (src/src/oogl/OOGLHandlerFactory.cpp)      *)
(*   oogl::Window              (src/src/oogl/Window.cpp)                  *)
(* One handler object exists (a concrete child of OOGLHandler built by the *)
(* application); Window objects live at the addresses 1..NumWindows.       *)
(* ITrackableObject::create/destroy of a window are the primitives         *)
(* Window::init / Window::free.                                            *)
(***************************************************************************)
EXTENDS Integers, Sequences, FiniteSets, TLC

\* ------------------------------------------------------------------ bounds
NumWindows == 3                 \* addresses at which a Window object can live
MaxCalls == 6                   \* calls made in one run of the program
NumThreads == 2                 \* threads that call into one handler

\* --------------------------------------------------------------- addresses
Null == 0                       \* nullptr
Windows == 1..NumWindows        \* addresses of Window objects
Handler == NumWindows + 1       \* address of the one OOGLHandler object
Threads == 1..NumThreads        \* the threads of a multi-threaded caller

\* ------------------------------------------- MediaSystem / WindowOption bits
\* A flag value is the set of the bit positions that are 1 in its uint32_t.
ALL == {0}
AUDIO == {1}
VIDEO == {7}
NONE == {}
FlagInputs == {ALL, AUDIO, VIDEO, NONE, AUDIO \cup VIDEO}

\* WindowOption has ALL and NONE with the values of MediaSystem; two more bits.
FULLSCREEN == {1}
MAXIMIZED == {7}
OptionInputs == {ALL, FULLSCREEN, MAXIMIZED, NONE, FULLSCREEN \cup MAXIMIZED}

\* The systems and options the calls of a whole-program run pass.
CallSystems == {ALL, AUDIO}
CallOptions == {ALL, FULLSCREEN}

\* The values a flag set over these bits can have.
FlagStates == SUBSET (ALL \cup AUDIO \cup VIDEO)

\* operator| : bitwise or of the two uint32_t values
BitOr(sys1, sys2) == sys1 \cup sys2

\* operator& : bitwise and of the two uint32_t values
BitAnd(sys1, sys2) == sys1 \cap sys2

\* operator! : C++ logical negation of the uint32_t value, cast back (0 or 1)
LogicalNot(sys) == IF sys = {} THEN {0} ELSE {}

VARIABLES
    s_graphicLibraryHandler,    \* OOGLHandlerFactory: the stored handler pointer
    m_isInitialized,            \* OOGLHandler: library initialized
    m_systems,                  \* OOGLHandler: activated subsystems
    m_tracker,                  \* OOGLHandler: set of tracked object pointers
    alive,                      \* addresses that hold a constructed Window
    m_isInit,                   \* Window: created flag, per address
    m_option,                   \* Window: creation options, per address
    m_parent,                   \* Window: parent pointer, per address
    m_children,                 \* Window: set of child pointers, per address
    pc,                         \* "running", "terminated" (std::terminate) or "undefined"
    t_pc,                       \* where each thread is inside OOGLHandler::init / exit
    calls,                      \* number of calls made so far
    result                      \* outcome of the last call

vars == <<s_graphicLibraryHandler, m_isInitialized, m_systems, m_tracker, alive,
          m_isInit, m_option, m_parent, m_children, pc, t_pc, calls, result>>

handlerVars == <<m_isInitialized, m_systems, m_tracker>>
windowVars == <<alive, m_isInit, m_option, m_parent, m_children>>

\* The program is running and makes one more call, start to end, with no
\* other thread inside the library.
Call ==
    /\ pc = "running"
    /\ calls < MaxCalls
    /\ calls' = calls + 1
    /\ \A t \in Threads : t_pc[t] \notin {"init:tested", "exit:tested"}
    /\ UNCHANGED t_pc

\* The record left in result by a call: the operation, the object it was
\* called on, its argument, the exception it ended with ("OK" for none), the
\* objects destroy() was called on, and the tracker as the call found it.
\* requested tells what the callers of the factory have seen: the last
\* createGraphicLibraryHandler returned normally and no
\* destroyGraphicLibraryHandler has returned normally since.  links is the
\* parent and children of every window as a linkToParent found them.
\* restarted tells that the call before this one was a shutdown that succeeded.
Outcome(op, self, arg, err, destroyed) ==
    [op |-> op, self |-> self, arg |-> arg, err |-> err, destroyed |-> destroyed,
     before |-> m_tracker,
     requested |-> IF err # "OK" THEN result.requested
                   ELSE IF op = "createGraphicLibraryHandler" THEN TRUE
                   ELSE IF op = "destroyGraphicLibraryHandler" THEN FALSE
                   ELSE result.requested,
     links |-> IF op = "linkToParent" THEN <<m_parent, m_children>> ELSE <<>>,
     restarted |-> /\ result.op \in {"exit", "destroyGraphicLibraryHandler"}
                   /\ result.err = "OK"]

\* The elements of a std::set of pointers in iteration (address) order.
RECURSIVE OrderedSeq(_)
OrderedSeq(S) ==
    IF S = {} THEN <<>>
    ELSE LET m == CHOOSE x \in S : \A y \in S : x <= y
         IN  <<m>> \o OrderedSeq(S \ {m})

Init ==
    /\ s_graphicLibraryHandler = Null
    /\ m_isInitialized = FALSE
    /\ m_systems = NONE
    /\ m_tracker = {}
    /\ alive = {}
    /\ m_isInit = [w \in Windows |-> FALSE]
    /\ m_option = [w \in Windows |-> NONE]
    /\ m_parent = [w \in Windows |-> Null]
    /\ m_children = [w \in Windows |-> {}]
    /\ pc = "running"
    /\ t_pc = [t \in Threads |-> "idle"]
    /\ calls = 0
    /\ result = [op |-> "none", self |-> Null, arg |-> Null, err |-> "OK",
                 destroyed |-> <<>>, before |-> {}, requested |-> FALSE,
                 links |-> <<>>, restarted |-> FALSE]

\* ============================================================ OOGLHandler

\* OOGLHandler::init without the test of m_isInitialized.
OOGLHandler_init_unchecked ==
    /\ Call
    /\ m_isInitialized' = TRUE
    /\ result' = Outcome("init", Handler, Null, "OK", <<>>)
    /\ UNCHANGED <<s_graphicLibraryHandler, m_systems, m_tracker, windowVars, pc>>

\* OOGLHandler::init
OOGLHandler_init ==
    /\ Call
    /\ IF m_isInitialized
       THEN /\ result' = Outcome("init", Handler, Null, "LIB_ALREADY_INIT", <<>>)
            /\ UNCHANGED m_isInitialized
       ELSE /\ m_isInitialized' = TRUE
            /\ result' = Outcome("init", Handler, Null, "OK", <<>>)
    /\ UNCHANGED <<s_graphicLibraryHandler, m_systems, m_tracker, windowVars, pc>>

\* Window::free asking the factory for the handler before it tests m_isInit.
FreeOutcome_lookupFirst(w, isInit, tracker) ==
    IF s_graphicLibraryHandler = Null
    THEN [err |-> "OOGL_HANDLER_NOT_CREATED", isInit |-> isInit, tracker |-> tracker]
    ELSE IF ~isInit[w]
    THEN [err |-> "WIN_NOT_CREATED", isInit |-> isInit, tracker |-> tracker]
    ELSE [err |-> "OK", isInit |-> [isInit EXCEPT ![w] = FALSE],
          tracker |-> tracker \ {w}]

\* Window::free dropping the window from the tracker before the test of m_isInit.
FreeOutcome_untrackFirst(w, isInit, tracker) ==
    IF ~isInit[w]
    THEN [err |-> "WIN_NOT_CREATED", isInit |-> isInit, tracker |-> tracker \ {w}]
    ELSE IF s_graphicLibraryHandler = Null
    THEN [err |-> "OOGL_HANDLER_NOT_CREATED", isInit |-> isInit, tracker |-> tracker]
    ELSE [err |-> "OK", isInit |-> [isInit EXCEPT ![w] = FALSE],
          tracker |-> tracker \ {w}]

\* Window::free on the object at w, as a function of the memory it reads and
\* writes: the created flags, the tracker of the handler the factory returns.
FreeOutcome(w, isInit, tracker) ==
    IF ~isInit[w]
    THEN [err |-> "WIN_NOT_CREATED", isInit |-> isInit, tracker |-> tracker]
    ELSE IF s_graphicLibraryHandler = Null
    THEN [err |-> "OOGL_HANDLER_NOT_CREATED", isInit |-> isInit, tracker |-> tracker]
    ELSE [err |-> "OK", isInit |-> [isInit EXCEPT ![w] = FALSE],
          tracker |-> tracker \ {w}]

\* The for loop of OOGLHandler::exit over the tracker: todo is what is left of
\* the iteration, destroyed the objects destroy() was called on so far.
\* The result is the set of outcomes the loop can have.  Calling destroy()
\* through a pointer to a destructed object, and advancing the iterator after
\* its element was erased by the untrack in Window::free, are undefined: the
\* run either breaks there or carries on with the memory as it is.
RECURSIVE ExitLoop(_, _, _, _)
ExitLoop(todo, isInit, tracker, destroyed) ==
    IF todo = <<>>
    THEN {[err |-> "OK", pc |-> "running", isInit |-> isInit,
           tracker |-> tracker, destroyed |-> destroyed]}
    ELSE LET w == Head(todo)
             f == FreeOutcome(w, isInit, tracker)
             called == Append(destroyed, w)
         IN  (IF w \notin alive
              THEN {[err |-> "UB", pc |-> "undefined", isInit |-> isInit,
                     tracker |-> tracker, destroyed |-> destroyed]}
              ELSE {})
             \cup
             (IF f.err # "OK"
              THEN {[err |-> f.err, pc |-> "running", isInit |-> f.isInit,
                     tracker |-> f.tracker, destroyed |-> called]}
              ELSE {[err |-> "UB", pc |-> "undefined", isInit |-> f.isInit,
                     tracker |-> f.tracker, destroyed |-> called]}
                   \cup ExitLoop(Tail(todo), f.isInit, f.tracker, called))

\* OOGLHandler::exit without the test of m_isInitialized.
ExitOutcomes_unchecked ==
    {IF o.err = "OK"
     THEN [err |-> "OK", pc |-> "running", isInit |-> o.isInit, tracker |-> {},
           destroyed |-> o.destroyed, isInitialized |-> FALSE]
     ELSE [err |-> o.err, pc |-> o.pc, isInit |-> o.isInit, tracker |-> o.tracker,
           destroyed |-> o.destroyed, isInitialized |-> m_isInitialized]
     : o \in ExitLoop(OrderedSeq(m_tracker), m_isInit, m_tracker, <<>>)}

\* OOGLHandler::exit leaving m_isInitialized as it is at the end.
ExitOutcomes_stayInitialized ==
    IF ~m_isInitialized
    THEN {[err |-> "LIB_NOT_INIT", pc |-> "running", isInit |-> m_isInit,
           tracker |-> m_tracker, destroyed |-> <<>>, isInitialized |-> m_isInitialized]}
    ELSE {IF o.err = "OK"
          THEN [err |-> "OK", pc |-> "running", isInit |-> o.isInit, tracker |-> {},
                destroyed |-> o.destroyed, isInitialized |-> m_isInitialized]
          ELSE [err |-> o.err, pc |-> o.pc, isInit |-> o.isInit, tracker |-> o.tracker,
                destroyed |-> o.destroyed, isInitialized |-> m_isInitialized]
          : o \in ExitLoop(OrderedSeq(m_tracker), m_isInit, m_tracker, <<>>)}

\* OOGLHandler::exit as the set of its outcomes from the current state.
ExitOutcomes ==
    IF ~m_isInitialized
    THEN {[err |-> "LIB_NOT_INIT", pc |-> "running", isInit |-> m_isInit,
           tracker |-> m_tracker, destroyed |-> <<>>, isInitialized |-> m_isInitialized]}
    ELSE {IF o.err = "OK"
          THEN [err |-> "OK", pc |-> "running", isInit |-> o.isInit, tracker |-> {},
                destroyed |-> o.destroyed, isInitialized |-> FALSE]
          ELSE [err |-> o.err, pc |-> o.pc, isInit |-> o.isInit, tracker |-> o.tracker,
                destroyed |-> o.destroyed, isInitialized |-> m_isInitialized]
          : o \in ExitLoop(OrderedSeq(m_tracker), m_isInit, m_tracker, <<>>)}

\* OOGLHandler::exit also resetting m_systems when it succeeds.
OOGLHandler_exit_reset ==
    /\ Call
    /\ \E o \in ExitOutcomes :
          /\ m_isInitialized' = o.isInitialized
          /\ m_tracker' = o.tracker
          /\ m_isInit' = o.isInit
          /\ pc' = o.pc
          /\ m_systems' = IF o.err = "OK" THEN NONE ELSE m_systems
          /\ result' = Outcome("exit", Handler, Null, o.err, o.destroyed)
    /\ UNCHANGED <<s_graphicLibraryHandler, alive, m_option, m_parent, m_children>>

\* OOGLHandler::exit
OOGLHandler_exit ==
    /\ Call
    /\ \E o \in ExitOutcomes :
          /\ m_isInitialized' = o.isInitialized
          /\ m_tracker' = o.tracker
          /\ m_isInit' = o.isInit
          /\ pc' = o.pc
          /\ result' = Outcome("exit", Handler, Null, o.err, o.destroyed)
    /\ UNCHANGED <<s_graphicLibraryHandler, m_systems, alive, m_option, m_parent,
                   m_children>>

\* activateSystem with the test of ALL before the test of an empty set.
ActivatedSystems_allFirst(systems, system) ==
    IF system = ALL THEN ALL
    ELSE IF systems = NONE THEN systems
    ELSE IF systems # ALL THEN BitOr(systems, system)
    ELSE systems

\* The value OOGLHandler::activateSystem leaves in m_systems.
ActivatedSystems(systems, system) ==
    IF systems = NONE THEN systems
    ELSE IF system = ALL THEN ALL
    ELSE IF systems # ALL THEN BitOr(systems, system)
    ELSE systems

\* The value OOGLHandler::deactivateSystem leaves in m_systems.
DeactivatedSystems(systems, system) ==
    IF systems = NONE THEN systems
    ELSE IF system = ALL THEN NONE
    ELSE IF systems # ALL THEN BitAnd(systems, LogicalNot(system))
    ELSE systems

\* OOGLHandler::activateSystem
OOGLHandler_activateSystem(system) ==
    /\ Call
    /\ m_systems' = ActivatedSystems(m_systems, system)
    /\ result' = Outcome("activateSystem", Handler, system, "OK", <<>>)
    /\ UNCHANGED <<s_graphicLibraryHandler, m_isInitialized, m_tracker, windowVars, pc>>

\* OOGLHandler::deactivateSystem
OOGLHandler_deactivateSystem(system) ==
    /\ Call
    /\ m_systems' = DeactivatedSystems(m_systems, system)
    /\ result' = Outcome("deactivateSystem", Handler, system, "OK", <<>>)
    /\ UNCHANGED <<s_graphicLibraryHandler, m_isInitialized, m_tracker, windowVars, pc>>

\* OOGLHandler::track assigning the tracker instead of inserting into it.
OOGLHandler_track_assign(object) ==
    /\ Call
    /\ object \in alive \cup {Null}
    /\ IF object = Null
       THEN /\ pc' = "terminated"
            /\ result' = Outcome("track", Handler, object, "OOGLHANDLER_NULL_OBJ_TRACK", <<>>)
            /\ UNCHANGED m_tracker
       ELSE /\ m_tracker' = {object}
            /\ result' = Outcome("track", Handler, object, "OK", <<>>)
            /\ UNCHANGED pc
    /\ UNCHANGED <<s_graphicLibraryHandler, m_isInitialized, m_systems, windowVars>>

\* OOGLHandler::track : declared noexcept, so the throw on a null pointer ends
\* in std::terminate and never reaches the caller.  The callers pass a null
\* pointer or the address of a Window.
OOGLHandler_track(object) ==
    /\ Call
    /\ object \in alive \cup {Null}
    /\ IF object = Null
       THEN /\ pc' = "terminated"
            /\ result' = Outcome("track", Handler, object, "OOGLHANDLER_NULL_OBJ_TRACK", <<>>)
            /\ UNCHANGED m_tracker
       ELSE /\ m_tracker' = m_tracker \cup {object}
            /\ result' = Outcome("track", Handler, object, "OK", <<>>)
            /\ UNCHANGED pc
    /\ UNCHANGED <<s_graphicLibraryHandler, m_isInitialized, m_systems, windowVars>>

\* OOGLHandler::untrack : noexcept as well.
OOGLHandler_untrack(object) ==
    /\ Call
    /\ object \in alive \cup {Null}
    /\ IF object = Null
       THEN /\ pc' = "terminated"
            /\ result' = Outcome("untrack", Handler, object, "OOGLHANDLER_NULL_OBJ_TRACK", <<>>)
            /\ UNCHANGED m_tracker
       ELSE /\ m_tracker' = m_tracker \ {object}
            /\ result' = Outcome("untrack", Handler, object, "OK", <<>>)
            /\ UNCHANGED pc
    /\ UNCHANGED <<s_graphicLibraryHandler, m_isInitialized, m_systems, windowVars>>

\* ------------------------------------------- OOGLHandler::init, step by step

\* A thread enters OOGLHandler::init, tests m_isInitialized and sets it in the
\* same step.
OOGLHandler_init_test_atomic(t) ==
    /\ pc = "running"
    /\ calls < MaxCalls
    /\ calls' = calls + 1
    /\ t_pc[t] \notin {"init:tested", "exit:tested"}
    /\ IF m_isInitialized
       THEN /\ t_pc' = [t_pc EXCEPT ![t] = "init:LIB_ALREADY_INIT"]
            /\ UNCHANGED m_isInitialized
       ELSE /\ t_pc' = [t_pc EXCEPT ![t] = "init:tested"]
            /\ m_isInitialized' = TRUE
    /\ UNCHANGED <<s_graphicLibraryHandler, m_systems, m_tracker, windowVars, pc, result>>

\* A thread enters OOGLHandler::init and evaluates the if: it reads
\* m_isInitialized and throws, or goes on to the assignment.  Nothing orders
\* this read against the writes of another thread.
OOGLHandler_init_test(t) ==
    /\ pc = "running"
    /\ calls < MaxCalls
    /\ calls' = calls + 1
    /\ t_pc[t] \notin {"init:tested", "exit:tested"}
    /\ t_pc' = [t_pc EXCEPT ![t] = IF m_isInitialized THEN "init:LIB_ALREADY_INIT"
                                   ELSE "init:tested"]
    /\ UNCHANGED <<s_graphicLibraryHandler, handlerVars, windowVars, pc, result>>

\* The thread past the if of OOGLHandler::init assigns true and returns.
OOGLHandler_init_write(t) ==
    /\ pc = "running"
    /\ t_pc[t] = "init:tested"
    /\ m_isInitialized' = TRUE
    /\ t_pc' = [t_pc EXCEPT ![t] = "init:OK"]
    /\ UNCHANGED <<s_graphicLibraryHandler, m_systems, m_tracker, windowVars, pc,
                   calls, result>>

\* A thread enters OOGLHandler::exit and evaluates the if.
OOGLHandler_exit_test(t) ==
    /\ pc = "running"
    /\ calls < MaxCalls
    /\ calls' = calls + 1
    /\ t_pc[t] \notin {"init:tested", "exit:tested"}
    /\ t_pc' = [t_pc EXCEPT ![t] = IF m_isInitialized THEN "exit:tested"
                                   ELSE "exit:LIB_NOT_INIT"]
    /\ UNCHANGED <<s_graphicLibraryHandler, handlerVars, windowVars, pc, result>>

\* The thread past the if of OOGLHandler::exit sweeps the tracker, which is
\* empty when only init and exit are called, clears it, assigns false and
\* returns.
OOGLHandler_exit_write(t) ==
    /\ pc = "running"
    /\ t_pc[t] = "exit:tested"
    /\ m_tracker = {}
    /\ m_tracker' = {}
    /\ m_isInitialized' = FALSE
    /\ t_pc' = [t_pc EXCEPT ![t] = "exit:OK"]
    /\ UNCHANGED <<s_graphicLibraryHandler, m_systems, windowVars, pc, calls, result>>

\* ===================================================== OOGLHandlerFactory

\* OOGLHandlerFactory::createGraphicLibraryHandler : past the check both
\* branches of the library selection are empty statements, nothing is stored.
createGraphicLibraryHandler ==
    /\ Call
    /\ IF s_graphicLibraryHandler # Null
       THEN result' = Outcome("createGraphicLibraryHandler", Null, Null,
                              "OOGL_HANDLER_ALREADY_CREATED", <<>>)
       ELSE result' = Outcome("createGraphicLibraryHandler", Null, Null, "OK", <<>>)
    /\ UNCHANGED <<s_graphicLibraryHandler, handlerVars, windowVars, pc>>

\* OOGLHandlerFactory::destroyGraphicLibraryHandler without the test of the
\* stored pointer.
destroyGraphicLibraryHandler_unchecked ==
    /\ Call
    /\ \E o \in ExitOutcomes :
          /\ m_isInitialized' = o.isInitialized
          /\ m_tracker' = o.tracker
          /\ m_isInit' = o.isInit
          /\ pc' = o.pc
          /\ s_graphicLibraryHandler' =
                IF o.err = "OK" THEN Null ELSE s_graphicLibraryHandler
          /\ result' = Outcome("destroyGraphicLibraryHandler", Null, Null,
                               o.err, o.destroyed)
    /\ UNCHANGED <<m_systems, alive, m_option, m_parent, m_children>>

\* OOGLHandlerFactory::destroyGraphicLibraryHandler
destroyGraphicLibraryHandler ==
    /\ Call
    /\ IF s_graphicLibraryHandler = Null
       THEN /\ result' = Outcome("destroyGraphicLibraryHandler", Null, Null,
                                 "OOGL_HANDLER_NOT_CREATED", <<>>)
            /\ UNCHANGED <<s_graphicLibraryHandler, m_isInitialized, m_tracker,
                           m_isInit, pc>>
       ELSE \E o \in ExitOutcomes :
               /\ m_isInitialized' = o.isInitialized
               /\ m_tracker' = o.tracker
               /\ m_isInit' = o.isInit
               /\ pc' = o.pc
               /\ s_graphicLibraryHandler' =
                     IF o.err = "OK" THEN Null ELSE s_graphicLibraryHandler
               /\ result' = Outcome("destroyGraphicLibraryHandler", Null, Null,
                                    o.err, o.destroyed)
    /\ UNCHANGED <<m_systems, alive, m_option, m_parent, m_children>>

\* OOGLHandlerFactory::getGraphicLibraryHandler : arg of the outcome is the
\* handler the returned reference refers to.
getGraphicLibraryHandler ==
    /\ Call
    /\ IF s_graphicLibraryHandler = Null
       THEN result' = Outcome("getGraphicLibraryHandler", Null, Null,
                              "OOGL_HANDLER_NOT_CREATED", <<>>)
       ELSE result' = Outcome("getGraphicLibraryHandler", Null,
                              s_graphicLibraryHandler, "OK", <<>>)
    /\ UNCHANGED <<s_graphicLibraryHandler, handlerVars, windowVars, pc>>

\* ================================================================= Window

\* The constructors initializing m_isInit to true.
Window_Window_created(w) ==
    /\ Call
    /\ w \notin alive
    /\ alive' = alive \cup {w}
    /\ m_children' = [m_children EXCEPT ![w] = {}]
    /\ m_isInit' = [m_isInit EXCEPT ![w] = TRUE]
    /\ m_option' = [m_option EXCEPT ![w] = NONE]
    /\ m_parent' = [m_parent EXCEPT ![w] = Null]
    /\ result' = Outcome("Window", w, Null, "OK", <<>>)
    /\ UNCHANGED <<s_graphicLibraryHandler, handlerVars, pc>>

\* Window::Window() and Window::Window(std::string, Rectangle const &)
Window_Window(w) ==
    /\ Call
    /\ w \notin alive
    /\ alive' = alive \cup {w}
    /\ m_children' = [m_children EXCEPT ![w] = {}]
    /\ m_isInit' = [m_isInit EXCEPT ![w] = FALSE]
    /\ m_option' = [m_option EXCEPT ![w] = NONE]
    /\ m_parent' = [m_parent EXCEPT ![w] = Null]
    /\ result' = Outcome("Window", w, Null, "OK", <<>>)
    /\ UNCHANGED <<s_graphicLibraryHandler, handlerVars, pc>>

\* The copy constructor also inserting the copy into the children of its parent.
Window_copy_linked(w, instance) ==
    /\ Call
    /\ w \notin alive
    /\ instance \in alive
    /\ alive' = alive \cup {w}
    /\ m_children' =
          LET copied == [m_children EXCEPT ![w] = m_children[instance]]
          IN  IF m_parent[instance] = Null THEN copied
              ELSE [copied EXCEPT ![m_parent[instance]] = @ \cup {w}]
    /\ m_isInit' = [m_isInit EXCEPT ![w] = m_isInit[instance]]
    /\ m_option' = [m_option EXCEPT ![w] = m_option[instance]]
    /\ m_parent' = [m_parent EXCEPT ![w] = m_parent[instance]]
    /\ result' = Outcome("copy", w, instance, "OK", <<>>)
    /\ UNCHANGED <<s_graphicLibraryHandler, handlerVars, pc>>

\* Window::Window(Window const &) : the new object at w copies instance.
Window_copy(w, instance) ==
    /\ Call
    /\ w \notin alive
    /\ instance \in alive
    /\ alive' = alive \cup {w}
    /\ m_children' = [m_children EXCEPT ![w] = m_children[instance]]
    /\ m_isInit' = [m_isInit EXCEPT ![w] = m_isInit[instance]]
    /\ m_option' = [m_option EXCEPT ![w] = m_option[instance]]
    /\ m_parent' = [m_parent EXCEPT ![w] = m_parent[instance]]
    /\ result' = Outcome("copy", w, instance, "OK", <<>>)
    /\ UNCHANGED <<s_graphicLibraryHandler, handlerVars, pc>>

\* Window::Window(Window &&) : the children set is moved out of instance,
\* which is left empty; the other members are copied.
Window_move(w, instance) ==
    /\ Call
    /\ w \notin alive
    /\ instance \in alive
    /\ alive' = alive \cup {w}
    /\ m_children' = [m_children EXCEPT ![w] = m_children[instance], ![instance] = {}]
    /\ m_isInit' = [m_isInit EXCEPT ![w] = m_isInit[instance]]
    /\ m_option' = [m_option EXCEPT ![w] = m_option[instance]]
    /\ m_parent' = [m_parent EXCEPT ![w] = m_parent[instance]]
    /\ result' = Outcome("move", w, instance, "OK", <<>>)
    /\ UNCHANGED <<s_graphicLibraryHandler, handlerVars, pc>>

\* Window::~Window : empty body; the memory keeps its last content.
Window_destructor(w) ==
    /\ Call
    /\ w \in alive
    /\ alive' = alive \ {w}
    /\ result' = Outcome("~Window", w, Null, "OK", <<>>)
    /\ UNCHANGED <<s_graphicLibraryHandler, handlerVars, m_isInit, m_option,
                   m_parent, m_children, pc>>

\* Window::init setting m_isInit before it asks the factory for the handler.
Window_init_flagFirst(w) ==
    /\ Call
    /\ w \in alive
    /\ IF m_isInit[w]
       THEN /\ result' = Outcome("Window::init", w, Null, "WIN_ALREADY_CREATED", <<>>)
            /\ UNCHANGED <<m_tracker, m_isInit>>
       ELSE IF s_graphicLibraryHandler = Null
       THEN /\ result' = Outcome("Window::init", w, Null, "OOGL_HANDLER_NOT_CREATED", <<>>)
            /\ m_isInit' = [m_isInit EXCEPT ![w] = TRUE]
            /\ UNCHANGED m_tracker
       ELSE /\ m_tracker' = m_tracker \cup {w}
            /\ m_isInit' = [m_isInit EXCEPT ![w] = TRUE]
            /\ result' = Outcome("Window::init", w, Null, "OK", <<>>)
    /\ UNCHANGED <<s_graphicLibraryHandler, m_isInitialized, m_systems, alive,
                   m_option, m_parent, m_children, pc>>

\* Window::init
Window_init(w) ==
    /\ Call
    /\ w \in alive
    /\ IF m_isInit[w]
       THEN /\ result' = Outcome("Window::init", w, Null, "WIN_ALREADY_CREATED", <<>>)
            /\ UNCHANGED <<m_tracker, m_isInit>>
       ELSE IF s_graphicLibraryHandler = Null
       THEN /\ result' = Outcome("Window::init", w, Null, "OOGL_HANDLER_NOT_CREATED", <<>>)
            /\ UNCHANGED <<m_tracker, m_isInit>>
       ELSE /\ m_tracker' = m_tracker \cup {w}
            /\ m_isInit' = [m_isInit EXCEPT ![w] = TRUE]
            /\ result' = Outcome("Window::init", w, Null, "OK", <<>>)
    /\ UNCHANGED <<s_graphicLibraryHandler, m_isInitialized, m_systems, alive,
                   m_option, m_parent, m_children, pc>>

\* Window::free
Window_free(w) ==
    /\ Call
    /\ w \in alive
    /\ LET f == FreeOutcome(w, m_isInit, m_tracker)
       IN  /\ m_tracker' = f.tracker
           /\ m_isInit' = f.isInit
           /\ result' = Outcome("Window::free", w, Null, f.err, <<>>)
    /\ UNCHANGED <<s_graphicLibraryHandler, m_isInitialized, m_systems, alive,
                   m_option, m_parent, m_children, pc>>

\* The value Window::activateOption leaves in m_option.
ActivatedOptions(options, option) ==
    IF options = NONE THEN options
    ELSE IF option = ALL THEN ALL
    ELSE IF options # ALL THEN BitOr(options, option)
    ELSE options

\* The value Window::deactivateOption leaves in m_option.
DeactivatedOptions(options, option) ==
    IF options = NONE THEN options
    ELSE IF option = ALL THEN NONE
    ELSE IF options # NONE THEN BitAnd(options, LogicalNot(option))
    ELSE options

\* Window::activateOption
Window_activateOption(w, option) ==
    /\ Call
    /\ w \in alive
    /\ m_option' = [m_option EXCEPT ![w] = ActivatedOptions(m_option[w], option)]
    /\ result' = Outcome("activateOption", w, option, "OK", <<>>)
    /\ UNCHANGED <<s_graphicLibraryHandler, handlerVars, alive, m_isInit, m_parent,
                   m_children, pc>>

\* Window::deactivateOption
Window_deactivateOption(w, option) ==
    /\ Call
    /\ w \in alive
    /\ m_option' = [m_option EXCEPT ![w] = DeactivatedOptions(m_option[w], option)]
    /\ result' = Outcome("deactivateOption", w, option, "OK", <<>>)
    /\ UNCHANGED <<s_graphicLibraryHandler, handlerVars, alive, m_isInit, m_parent,
                   m_children, pc>>

\* Window::linkToParent also registering the child with the handler.
Window_linkToParent_tracked(w, window) ==
    /\ Call
    /\ w \in alive
    /\ window \in alive
    /\ m_parent' = [m_parent EXCEPT ![w] = window]
    /\ m_children' = [m_children EXCEPT ![window] = @ \cup {w}]
    /\ m_tracker' = m_tracker \cup {w}
    /\ result' = Outcome("linkToParent", w, window, "OK", <<>>)
    /\ UNCHANGED <<s_graphicLibraryHandler, m_isInitialized, m_systems, alive,
                   m_isInit, m_option, pc>>

\* Window::linkToParent refusing a window as its own parent.
Window_linkToParent_checked(w, window) ==
    /\ Call
    /\ w \in alive
    /\ window \in alive
    /\ IF w = window
       THEN /\ result' = Outcome("linkToParent", w, window, "REFUSED", <<>>)
            /\ UNCHANGED <<m_parent, m_children>>
       ELSE /\ m_parent' = [m_parent EXCEPT ![w] = window]
            /\ m_children' = [m_children EXCEPT ![window] = @ \cup {w}]
            /\ result' = Outcome("linkToParent", w, window, "OK", <<>>)
    /\ UNCHANGED <<s_graphicLibraryHandler, handlerVars, alive, m_isInit, m_option, pc>>

\* Window::linkToParent
Window_linkToParent(w, window) ==
    /\ Call
    /\ w \in alive
    /\ window \in alive
    /\ m_parent' = [m_parent EXCEPT ![w] = window]
    /\ m_children' = [m_children EXCEPT ![window] = @ \cup {w}]
    /\ result' = Outcome("linkToParent", w, window, "OK", <<>>)
    /\ UNCHANGED <<s_graphicLibraryHandler, handlerVars, alive, m_isInit, m_option, pc>>

\* Window::looseParent returning at once when m_parent is null.
Window_looseParent_guarded(w) ==
    /\ Call
    /\ w \in alive
    /\ m_children' = IF m_parent[w] = Null THEN m_children
                     ELSE [m_children EXCEPT ![m_parent[w]] = @ \ {w}]
    /\ m_parent' = [m_parent EXCEPT ![w] = Null]
    /\ result' = Outcome("looseParent", w, m_parent[w], "OK", <<>>)
    /\ UNCHANGED <<s_graphicLibraryHandler, handlerVars, alive, m_isInit, m_option, pc>>

\* Window::looseParent : m_parent is dereferenced unchecked.  With a null
\* m_parent, or one that points to a destructed Window, the call is undefined:
\* the run either breaks, or the statements act on the memory as it is (on no
\* set at all when m_parent is null).
Window_looseParent(w) ==
    /\ Call
    /\ w \in alive
    /\ LET valid == m_parent[w] \in alive
       IN  \E broken \in (IF valid THEN {FALSE} ELSE {TRUE, FALSE}) :
              IF broken
              THEN /\ pc' = "undefined"
                   /\ result' = Outcome("looseParent", w, m_parent[w], "UB", <<>>)
                   /\ UNCHANGED <<m_parent, m_children>>
              ELSE /\ m_children' = IF m_parent[w] = Null THEN m_children
                                    ELSE [m_children EXCEPT ![m_parent[w]] = @ \ {w}]
                   /\ m_parent' = [m_parent EXCEPT ![w] = Null]
                   /\ result' = Outcome("looseParent", w, m_parent[w],
                                        IF valid THEN "OK" ELSE "UB", <<>>)
                   /\ UNCHANGED pc
    /\ UNCHANGED <<s_graphicLibraryHandler, handlerVars, alive, m_isInit, m_option>>

Next ==
    \/ OOGLHandler_init
    \/ OOGLHandler_exit
    \/ \E system \in CallSystems : OOGLHandler_activateSystem(system)
    \/ \E system \in CallSystems : OOGLHandler_deactivateSystem(system)
    \/ \E object \in Windows \cup {Null} : OOGLHandler_track(object)
    \/ \E object \in Windows \cup {Null} : OOGLHandler_untrack(object)
    \/ createGraphicLibraryHandler
    \/ destroyGraphicLibraryHandler
    \/ getGraphicLibraryHandler
    \/ \E w \in Windows : Window_Window(w)
    \/ \E w, instance \in Windows : Window_copy(w, instance)
    \/ \E w, instance \in Windows : Window_move(w, instance)
    \/ \E w \in Windows : Window_destructor(w)
    \/ \E w \in Windows : Window_init(w)
    \/ \E w \in Windows : Window_free(w)
    \/ \E w \in Windows : \E option \in CallOptions : Window_activateOption(w, option)
    \/ \E w \in Windows : \E option \in CallOptions : Window_deactivateOption(w, option)
    \/ \E w, window \in Windows : Window_linkToParent(w, window)
    \/ \E w \in Windows : Window_looseParent(w)

Spec == Init /\ [][Next]_vars

\* The calls that build and link windows only.
NextTree ==
    \/ \E w \in Windows : Window_Window(w)
    \/ \E w, instance \in Windows : Window_copy(w, instance)
    \/ \E w, window \in Windows : Window_linkToParent(w, window)
    \/ \E w \in Windows : Window_looseParent(w)

SpecTree == Init /\ [][NextTree]_vars

\* The flag algebra on its own: activateSystem, deactivateSystem,
\* activateOption and deactivateOption applied to every value of the flag set
\* of the handler and of the options of one window.
InitFlags ==
    /\ s_graphicLibraryHandler = Null
    /\ m_isInitialized = FALSE
    /\ m_systems \in FlagStates
    /\ m_tracker = {}
    /\ alive = {1}
    /\ m_isInit = [w \in Windows |-> FALSE]
    /\ \E options \in FlagStates :
          m_option = [w \in Windows |-> IF w = 1 THEN options ELSE NONE]
    /\ m_parent = [w \in Windows |-> Null]
    /\ m_children = [w \in Windows |-> {}]
    /\ pc = "running"
    /\ t_pc = [t \in Threads |-> "idle"]
    /\ calls = 0
    /\ result = [op |-> "none", self |-> Null, arg |-> Null, err |-> "OK",
                 destroyed |-> <<>>, before |-> {}, requested |-> FALSE,
                 links |-> <<>>, restarted |-> FALSE]

NextFlags ==
    \/ \E system \in FlagInputs : OOGLHandler_activateSystem(system)
    \/ \E system \in FlagInputs : OOGLHandler_deactivateSystem(system)
    \/ \E w \in Windows : \E option \in OptionInputs : Window_activateOption(w, option)
    \/ \E w \in Windows : \E option \in OptionInputs : Window_deactivateOption(w, option)

SpecFlags == InitFlags /\ [][NextFlags]_vars

\* The handler on its own, from every value of its flag set: startup,
\* shutdown, the two flag calls, track and untrack.
NextHandler ==
    \/ OOGLHandler_init
    \/ OOGLHandler_exit
    \/ \E system \in FlagInputs : OOGLHandler_activateSystem(system)
    \/ \E system \in FlagInputs : OOGLHandler_deactivateSystem(system)
    \/ \E object \in Windows \cup {Null} : OOGLHandler_track(object)
    \/ \E object \in Windows \cup {Null} : OOGLHandler_untrack(object)

SpecHandler == InitFlags /\ [][NextHandler]_vars

\* Threads that call init and exit of one handler with nothing between them:
\* the steps of the calls interleave.
NextThreads ==
    \/ \E t \in Threads : OOGLHandler_init_test(t)
    \/ \E t \in Threads : OOGLHandler_init_write(t)
    \/ \E t \in Threads : OOGLHandler_exit_test(t)
    \/ \E t \in Threads : OOGLHandler_exit_write(t)

SpecThreads == Init /\ [][NextThreads]_vars

\* ================================================================ claims

\* C1: a shutdown (OOGLHandler::exit) of an initialized handler calls destroy()
\* exactly once on every object that is in the tracker at the call, and returns
\* with the tracker empty and the handler uninitialized.
C1_ShutdownReleasesAll ==
    [][(result'.op = "exit" /\ m_isInitialized)
         => /\ result'.err = "OK"
            /\ Len(result'.destroyed) = Cardinality(m_tracker)
            /\ {result'.destroyed[i] : i \in 1..Len(result'.destroyed)} = m_tracker
            /\ m_tracker' = {}
            /\ ~m_isInitialized']_vars

\* C2: a window has created (m_isInit) true if and only if it is in the
\* handler's tracker.
C2_CreatedIffTracked ==
    \A w \in alive : m_isInit[w] <=> w \in m_tracker

\* C3: the tracker is non-empty only if the handler is initialized.
C3_TrackedOnlyWhenInitialized ==
    m_tracker # {} => m_isInitialized

\* C4: for all windows C and P, C is in the children of P if and only if the
\* parent of C is P.
C4_ParentChildrenConsistent ==
    \A c \in alive : \A p \in alive : (c \in m_children[p]) <=> (m_parent[c] = p)

\* C5: startup (OOGLHandler::init) of an uninitialized handler succeeds and
\* makes it initialized; on an initialized handler it fails with LIB_ALREADY_INIT
\* and leaves initialized, the flag set and the tracker unchanged.
C5_Startup ==
    [][result'.op = "init"
         => IF m_isInitialized
            THEN /\ result'.err = "LIB_ALREADY_INIT"
                 /\ UNCHANGED <<m_isInitialized, m_systems, m_tracker>>
            ELSE /\ result'.err = "OK"
                 /\ m_isInitialized']_vars

\* C5 witness: a startup of an initialized handler that tracks an object failed.
C5_Witness ==
    /\ result.op = "init"
    /\ result.err = "LIB_ALREADY_INIT"
    /\ m_isInitialized
    /\ m_tracker # {}

\* C6: shutdown (OOGLHandler::exit) of an uninitialized handler fails with
\* LIB_NOT_INIT, calls destroy() on no object and leaves the tracker, the flag
\* set, initialized and the windows unchanged; a shutdown directly after a
\* successful one fails this way.
C6_ShutdownUninitialized ==
    [][/\ (result'.op = "exit" /\ ~m_isInitialized)
            => /\ result'.err = "LIB_NOT_INIT"
               /\ result'.destroyed = <<>>
               /\ UNCHANGED <<m_isInitialized, m_systems, m_tracker, m_isInit>>
       /\ (result.op = "exit" /\ result.err = "OK" /\ result'.op = "exit")
            => result'.err = "LIB_NOT_INIT"]_vars

\* C6 witness: a shutdown of an uninitialized handler whose tracker holds an
\* object failed.
C6_Witness ==
    /\ result.op = "exit"
    /\ result.err = "LIB_NOT_INIT"
    /\ result.before # {}
    /\ m_tracker = result.before

\* C7: track of a non-null object adds exactly that object (nothing changes when
\* it is already tracked, so a second track is the same as one); untrack of a
\* non-null object leaves it untracked and changes nothing when it was absent;
\* the membership of every other object is unaffected.
C7_TrackUntrackIdempotent ==
    [][/\ (result'.op = "track" /\ result'.arg # Null)
            => /\ m_tracker' = m_tracker \cup {result'.arg}
               /\ result'.arg \in m_tracker => m_tracker' = m_tracker
       /\ (result'.op = "untrack" /\ result'.arg # Null)
            => /\ result'.arg \notin m_tracker'
               /\ \A o \in Windows \ {result'.arg} : o \in m_tracker' <=> o \in m_tracker
               /\ result'.arg \notin m_tracker => m_tracker' = m_tracker]_vars

\* C7 witness: an object was tracked a second time while another one is
\* tracked, and the tracker is what it was.
C7_Witness ==
    /\ result.op = "track"
    /\ result.arg \in result.before
    /\ Cardinality(result.before) >= 2
    /\ m_tracker = result.before

\* C8: track and untrack of a null pointer fail with the null-object error,
\* the failure reaches the caller, and the tracker is unchanged.
C8_NullObjectReported ==
    (result.op \in {"track", "untrack"} /\ result.arg = Null)
        => /\ result.err = "OOGLHANDLER_NULL_OBJ_TRACK"
           /\ pc = "running"
           /\ m_tracker = result.before

\* C9: after a successful createGraphicLibraryHandler with no handler held the
\* factory holds a handler, and a following getGraphicLibraryHandler succeeds
\* and returns it.
C9_CreateThenGet ==
    [][/\ (result'.op = "createGraphicLibraryHandler" /\ result'.err = "OK")
            => s_graphicLibraryHandler' # Null
       /\ (/\ result.op = "createGraphicLibraryHandler"
           /\ result.err = "OK"
           /\ result'.op = "getGraphicLibraryHandler")
            => /\ result'.err = "OK"
               /\ result'.arg = s_graphicLibraryHandler
               /\ result'.arg # Null]_vars

\* C10: createGraphicLibraryHandler after a successful one, with no
\* destroyGraphicLibraryHandler in between, fails with
\* OOGL_HANDLER_ALREADY_CREATED and leaves the held handler unchanged.
C10_SecondCreateFails ==
    [][(/\ result.op = "createGraphicLibraryHandler"
        /\ result.err = "OK"
        /\ result'.op = "createGraphicLibraryHandler")
         => /\ result'.err = "OOGL_HANDLER_ALREADY_CREATED"
            /\ UNCHANGED s_graphicLibraryHandler]_vars

\* C11: destroyGraphicLibraryHandler, with a handler obtained from the factory
\* and initialized, performs the shutdown of that handler (destroy() on every
\* tracked object, tracker emptied, handler uninitialized) and clears the stored
\* pointer; the next getGraphicLibraryHandler then fails with
\* OOGL_HANDLER_NOT_CREATED and the next createGraphicLibraryHandler succeeds.
C11_DestroyHandlerShutsDown ==
    [][/\ (/\ result.requested
           /\ m_isInitialized
           /\ result'.op = "destroyGraphicLibraryHandler")
            => /\ result'.err = "OK"
               /\ {result'.destroyed[i] : i \in 1..Len(result'.destroyed)} = m_tracker
               /\ m_tracker' = {}
               /\ ~m_isInitialized'
               /\ s_graphicLibraryHandler' = Null
       /\ (/\ result.op = "destroyGraphicLibraryHandler"
           /\ result.err = "OK"
           /\ result'.op = "getGraphicLibraryHandler")
            => result'.err = "OOGL_HANDLER_NOT_CREATED"
       /\ (/\ result.op = "destroyGraphicLibraryHandler"
           /\ result.err = "OK"
           /\ result'.op = "createGraphicLibraryHandler")
            => result'.err = "OK"]_vars

\* C12: with no handler stored, getGraphicLibraryHandler and
\* destroyGraphicLibraryHandler fail with OOGL_HANDLER_NOT_CREATED and leave
\* the stored pointer null and the handler and every window unchanged.
C12_NoHandlerGetDestroyFail ==
    [][(/\ result'.op \in {"getGraphicLibraryHandler", "destroyGraphicLibraryHandler"}
        /\ s_graphicLibraryHandler = Null)
         => /\ result'.err = "OOGL_HANDLER_NOT_CREATED"
            /\ s_graphicLibraryHandler' = Null
            /\ UNCHANGED <<handlerVars, windowVars>>]_vars

\* C12 witness: destroyGraphicLibraryHandler failed with no handler ever
\* requested, and the initialized handler object still tracks its objects.
C12_Witness ==
    /\ result.op = "destroyGraphicLibraryHandler"
    /\ result.err = "OOGL_HANDLER_NOT_CREATED"
    /\ ~result.requested
    /\ s_graphicLibraryHandler = Null
    /\ m_isInitialized
    /\ m_tracker # {}

\* C13: create (Window::init) of a window that is not created, with a handler
\* obtained from the factory, adds the window to the tracker and sets created;
\* from an empty tracker the size becomes 1.
C13_CreateTracks ==
    [][(/\ result.requested
        /\ result'.op = "Window::init"
        /\ ~m_isInit[result'.self])
         => /\ result'.err = "OK"
            /\ m_tracker' = m_tracker \cup {result'.self}
            /\ m_isInit'[result'.self]
            /\ m_tracker = {} => Cardinality(m_tracker') = 1]_vars

\* C14: create (Window::init) with no handler stored fails with
\* OOGL_HANDLER_NOT_CREATED, leaves created false and does not add the window
\* to the tracker.
C14_CreateWithoutHandler ==
    [][(/\ result'.op = "Window::init"
        /\ s_graphicLibraryHandler = Null
        /\ ~m_isInit[result'.self])
         => /\ result'.err = "OOGL_HANDLER_NOT_CREATED"
            /\ ~m_isInit'[result'.self]
            /\ UNCHANGED <<m_isInit, m_tracker>>]_vars

\* C14 witness: create failed on a window that is in no tracker, with no
\* handler ever requested from the factory.
C14_Witness ==
    /\ result.op = "Window::init"
    /\ result.err = "OOGL_HANDLER_NOT_CREATED"
    /\ ~result.requested
    /\ result.self \notin m_tracker
    /\ ~m_isInit[result.self]

C16_CreateDestroyRepeatable ==
    [][/\ (/\ result.requested
           /\ result.op = "Window::init"
           /\ result'.op = "Window::free"
           /\ result'.self = result.self)
            => /\ result'.err = "OK"
               /\ result'.self \notin m_tracker'
               /\ ~m_isInit'[result'.self]
       /\ (/\ result.requested
           /\ result.op = "Window::free"
           /\ result.err = "OK"
           /\ result'.op = "Window::init"
           /\ result'.self = result.self)
            => result'.err = "OK"]_vars

\* C17: linkToParent(P) on a window C without parent puts C in the children
\* of P and makes P the parent of C; a looseParent on C that follows takes C
\* out of the children of P, clears the parent of C, and leaves the parent and
\* the children of every window as they were before the link.
C17_LinkUnlinkRoundTrip ==
    [][/\ (result'.op = "linkToParent" /\ m_parent[result'.self] = Null)
            => /\ result'.self \in m_children'[result'.arg]
               /\ m_parent'[result'.self] = result'.arg
       /\ (/\ result.op = "linkToParent"
           /\ result.links[1][result.self] = Null
           /\ result'.op = "looseParent"
           /\ result'.self = result.self)
            => /\ result'.self \notin m_children'[result.arg]
               /\ m_parent'[result'.self] = Null
               /\ m_parent' = result.links[1]
               /\ m_children' = result.links[2]]_vars

\* C18: destroy does not cascade: with a handler obtained from the factory and
\* B linked as a child of A, a destroy of A that follows the create of B leaves
\* B created and in the tracker.
C18_DestroyParentKeepsChild ==
    [][(/\ result.requested
        /\ result.op = "Window::init"
        /\ result'.op = "Window::free"
        /\ result'.self # result.self
        /\ m_parent[result.self] = result'.self
        /\ result.self \in m_children[result'.self])
         => /\ m_isInit'[result.self]
            /\ result.self \in m_tracker']_vars

C21_FlagFold ==
    [][/\ result'.op = "activateSystem"
            => m_systems' = IF result'.arg = ALL THEN ALL
                            ELSE IF m_systems = NONE THEN m_systems
                            ELSE m_systems \cup result'.arg
       /\ result'.op = "deactivateSystem"
            => m_systems' = IF m_systems = NONE THEN m_systems
                            ELSE IF result'.arg = ALL THEN NONE
                            ELSE m_systems \ result'.arg]_vars

\* C22: activateSystem(ALL) on a handler whose flag set is NONE sets it to ALL.
C22_ColdStartAll ==
    [][(/\ result'.op = "activateSystem"
        /\ m_systems = NONE
        /\ result'.arg = ALL)
         => m_systems' = ALL]_vars

C25_FailureChangesNothing ==
    [][result'.err \in {"LIB_ALREADY_INIT", "LIB_NOT_INIT",
                        "OOGL_HANDLER_ALREADY_CREATED", "OOGL_HANDLER_NOT_CREATED",
                        "OOGLHANDLER_NULL_OBJ_TRACK", "WIN_ALREADY_CREATED",
                        "WIN_NOT_CREATED"}
         => UNCHANGED <<s_graphicLibraryHandler, handlerVars, windowVars>>]_vars

\* C25 witness: a shutdown of an initialized handler that tracks two objects
\* failed with WIN_NOT_CREATED and the tracker is as the call found it.
C25_Witness ==
    /\ result.op = "exit"
    /\ result.err = "WIN_NOT_CREATED"
    /\ m_isInitialized
    /\ Cardinality(result.before) >= 2
    /\ m_tracker = result.before

\* C26: a shutdown that has passed its test of initialized cannot fail: it
\* ends with the tracker empty and the handler uninitialized, whatever the
\* tracker holds.
C26_DrainCannotFail ==
    (result.op = "exit" /\ result.err # "LIB_NOT_INIT")
        => /\ result.err = "OK"
           /\ m_tracker = {}
           /\ ~m_isInitialized

\* C27: the handler is cyclic: a successful shutdown leaves it uninitialized
\* with an empty tracker, a startup that follows succeeds and finds the
\* tracker empty, and after a startup track and untrack are accepted.
C27_Cyclic ==
    [][/\ (result'.op = "exit" /\ result'.err = "OK")
            => (~m_isInitialized' /\ m_tracker' = {})
       /\ (result.op = "exit" /\ result.err = "OK" /\ result'.op = "init")
            => /\ result'.err = "OK"
               /\ m_isInitialized'
               /\ m_tracker' = {}
       /\ (/\ result.op = "init"
           /\ result.err = "OK"
           /\ result'.op \in {"track", "untrack"}
           /\ result'.arg # Null)
            => /\ result'.err = "OK"
               /\ m_tracker' = IF result'.op = "track"
                               THEN m_tracker \cup {result'.arg}
                               ELSE m_tracker \ {result'.arg}]_vars

\* C27 witness: a startup succeeded directly after a successful shutdown, and
\* the tracker is empty.
C27_Witness ==
    /\ result.op = "init"
    /\ result.err = "OK"
    /\ result.restarted
    /\ m_isInitialized
    /\ m_tracker = {}

\* C28: destroyGraphicLibraryHandler, with a handler obtained from the factory
\* that is uninitialized, fails with LIB_NOT_INIT and keeps the stored handler,
\* so that getGraphicLibraryHandler still succeeds and
\* createGraphicLibraryHandler still fails.
C28_DestroyUninitializedHandler ==
    [][/\ (/\ result.requested
           /\ ~m_isInitialized
           /\ result'.op = "destroyGraphicLibraryHandler")
            => /\ result'.err = "LIB_NOT_INIT"
               /\ s_graphicLibraryHandler' # Null
               /\ result'.requested
       /\ (/\ result.op = "destroyGraphicLibraryHandler"
           /\ result.err = "LIB_NOT_INIT"
           /\ result'.op = "getGraphicLibraryHandler")
            => result'.err = "OK"
       /\ (/\ result.op = "destroyGraphicLibraryHandler"
           /\ result.err = "LIB_NOT_INIT"
           /\ result'.op = "createGraphicLibraryHandler")
            => result'.err = "OOGL_HANDLER_ALREADY_CREATED"]_vars

\* C29: copy construction changes neither the tracker nor the created flag,
\* parent or children of any existing window; the copy has the parent, the
\* children and the created flag of its source.
C29_CopyFrame ==
    [][result'.op = "copy"
         => /\ m_tracker' = m_tracker
            /\ \A w \in alive : /\ m_parent'[w] = m_parent[w]
                                /\ m_children'[w] = m_children[w]
                                /\ m_isInit'[w] = m_isInit[w]
            /\ m_parent'[result'.self] = m_parent[result'.arg]
            /\ m_children'[result'.self] = m_children[result'.arg]
            /\ m_isInit'[result'.self] = m_isInit[result'.arg]]_vars

\* C29 witness: a window with a parent and a child was copied while it is
\* tracked, and the copy is not tracked.
C29_Witness ==
    /\ result.op = "copy"
    /\ m_parent[result.self] # Null
    /\ m_children[result.self] # {}
    /\ result.arg \in m_tracker
    /\ result.self \notin m_tracker

\* C30: linkToParent always succeeds, whatever the tree: the given window
\* becomes the parent and gets the caller as a child, also when it is the
\* caller itself or a descendant of the caller.
C30_LinkUnchecked ==
    [][result'.op = "linkToParent"
         => /\ result'.err = "OK"
            /\ m_parent'[result'.self] = result'.arg
            /\ result'.self \in m_children'[result'.arg]]_vars

\* C30 witness: a window was linked to one of its children, and the parent
\* pointers of the two form a cycle.
C30_Witness ==
    /\ result.op = "linkToParent"
    /\ result.self # result.arg
    /\ result.links[1][result.arg] = result.self
    /\ m_parent[result.self] = result.arg
    /\ m_parent[result.arg] = result.self

\* C31: looseParent has no guard and throws nothing: with a parent that is a
\* live window it removes the caller from the children of the parent and
\* clears the parent pointer; with no parent it reaches through a null
\* pointer, which is undefined, and is neither a no-op nor an error.
C31_LooseParentUnguarded ==
    [][result'.op = "looseParent"
         => LET w == result'.self
                parent == m_parent[w]
            IN  /\ result'.err \in {"OK", "UB"}
                /\ parent \in alive
                     => /\ result'.err = "OK"
                        /\ m_parent'[w] = Null
                        /\ w \notin m_children'[parent]
                /\ parent = Null => result'.err = "UB"]_vars

\* C31 witness: looseParent was called on a window with no parent and the
\* behaviour of the run is undefined from there.
C31_Witness ==
    /\ result.op = "looseParent"
    /\ result.arg = Null
    /\ result.err = "UB"
    /\ pc = "undefined"

\* C32: every call terminates; in particular a call of exit returns or throws,
\* its sweep never leaves defined behaviour, where nothing is guaranteed to
\* end.
C32_ExitTerminates ==
    result.op = "exit" => pc = "running"

\* C33: in OOGLHandler::init the test of m_isInitialized and the assignment to
\* it are separate steps with nothing between the threads: the test writes
\* nothing, and a thread that has passed the test assigns true and returns
\* normally whatever another thread has written since, so two concurrent calls
\* on an uninitialized handler can both succeed.
C33_InitTestThenWrite ==
    [][\A t \in Threads :
          /\ (t_pc[t] # "init:tested" /\ t_pc'[t] = "init:tested")
               => (~m_isInitialized /\ UNCHANGED m_isInitialized)
          /\ (t_pc[t] = "init:tested" /\ t_pc'[t] # "init:tested")
               => (t_pc'[t] = "init:OK" /\ m_isInitialized')]_vars

\* C33 witness: two calls were made in all, init by two threads, and both
\* returned normally.
C33_Witness ==
    /\ calls = 2
    /\ \E t1, t2 \in Threads : /\ t1 # t2
                               /\ t_pc[t1] = "init:OK"
                               /\ t_pc[t2] = "init:OK"

C36_NoDanglingReference ==
    /\ m_tracker \subseteq alive
    /\ \A w \in alive : /\ m_parent[w] \in alive \cup {Null}
                        /\ m_children[w] \subseteq alive

C38_AtMostOneParentHoldsChild ==
    \A w \in alive :
        Cardinality({p \in alive : w \in m_children[p]}) <= 1

\* C39: create and destroy (Window::init, Window::free) leave the parent and
\* children of every window unchanged; linkToParent and looseParent, where
\* their behaviour is defined, leave the created flag of every window and the
\* tracker unchanged.
C39_TreeAndRegistryIndependent ==
    [][/\ result'.op \in {"Window::init", "Window::free"}
            => UNCHANGED <<m_parent, m_children>>
       /\ (result'.op \in {"linkToParent", "looseParent"} /\ result'.err = "OK")
            => UNCHANGED <<m_isInit, m_tracker>>]_vars

\* C39 witness: a tracked window was linked to a parent.
C39_Witness ==
    /\ result.op = "linkToParent"
    /\ result.self \in m_tracker
    /\ m_parent[result.self] = result.arg

\* C40: init and exit leave the flag set of the handler unchanged, and
\* activateSystem and deactivateSystem leave m_isInitialized and the tracker
\* unchanged, so a startup after a shutdown finds the flag set as it was.
C40_FlagsAndLifecycleIndependent ==
    [][/\ result'.op \in {"init", "exit"} => UNCHANGED m_systems
       /\ result'.op \in {"activateSystem", "deactivateSystem"}
            => UNCHANGED <<m_isInitialized, m_tracker>>]_vars

\* C40 witness: a startup succeeded directly after a successful shutdown with
\* a flag set that is not empty.
C40_Witness ==
    /\ result.op = "init"
    /\ result.err = "OK"
    /\ result.restarted
    /\ m_systems # NONE
====
